---- MODULE Spec2Model ----
(***************************************************************************)
(* Model of the cs-546-grader: the batch orchestrator autoGrade            *)
(* (src/index.js) driving one Grader lifecycle per archive                  *)
(* (src/unnamed/part_004, the Grader.js that index.js imports), with the    *)
(* point-deduction assertion engine of the Grader.                          *)
(***************************************************************************)
EXTENDS Integers, Sequences, FiniteSets, TLC

\* ------------------------------------------------------------------ bounds
\* number of entries of the submissions directory
MaxFiles == 2
\* number of assertion calls one testCases() run makes in a batch
BatchAsserts == 1
\* number of assertion calls made on a lone Grader (SpecLedger)
MaxAsserts == 3

\* ------------------------------------------------------- program constants
InitialScore == 100
ModulesPenalty == 5
PackagePenalty == 5

\* "not a number": the value of an omitted messagePoints / typePoints
NoPoints == -1

\* point values a test author passes (points, messagePoints, typePoints)
Points == {10, 60}

\* what a test case may pass to deductPoints itself: lines 61-62 subtract the
\* argument unvalidated, so a negative number is accepted too
DeductArgs == Points \cup {-5}

\* ----------------------------------------------------------------- helpers
Range(s) == {s[i] : i \in DOMAIN s}

RECURSIVE SumSeq(_)
SumSeq(s) == IF s = <<>> THEN 0 ELSE s[1] + SumSeq(Tail(s))

Max(a, b) == IF a >= b THEN a ELSE b

RECURSIVE FilterSeq(_, _)
\* the elements of sequence s that are in set keep, in order (Array.filter)
FilterSeq(s, keep) ==
  IF s = <<>> THEN <<>>
  ELSE IF s[1] \in keep THEN <<s[1]>> \o FilterSeq(Tail(s), keep)
       ELSE FilterSeq(Tail(s), keep)

\* ------------------------------------------------------------------ ledger
\* A ledger is [score, comments, calls]: comments holds the point label of
\* each pushed comment, calls (history) the argument of each deductPoints call.
NewLedger == [score |-> InitialScore, comments |-> <<>>, calls |-> <<>>]

deductPointsNoClamp(L, points) ==
  [score |-> L.score - points,
   comments |-> Append(L.comments, points),
   calls |-> Append(L.calls, points)]

deductPointsNoPush(L, points) ==
  [score |-> IF L.score - points < 0 THEN 0 ELSE L.score - points,
   comments |-> L.comments,
   calls |-> Append(L.calls, points)]

deductPoints(L, points) ==
  [score |-> IF L.score - points < 0 THEN 0 ELSE L.score - points,
   comments |-> Append(L.comments, points),
   calls |-> Append(L.calls, points)]

\* --------------------------------------------------------------- assertions
\* The result of an assertion call: the ledger afterwards and what the call
\* threw ("none" when it returned normally).
Outcome(L, thrown) == [ledger |-> L, thrown |-> thrown]

\* probe outcomes of the equality assertions: the probe returns a value that
\* is or is not deep-equal to the expected one, raises a value that has a
\* toString, or raises undefined/null
EqProbes == {"equal", "unequal", "raises", "raisesUndefined"}

\* lines 74-89; line 79 evaluates e.toString() before deductPoints is called
assertDeepEquals(L, points, probe) ==
  IF probe = "raisesUndefined" THEN Outcome(L, "TypeError")
  ELSE IF probe = "raises" THEN Outcome(deductPoints(L, points), "none")
  ELSE IF probe = "unequal" THEN Outcome(deductPoints(L, points), "none")
  ELSE Outcome(L, "none")

\* what a probe given to assertThrows does: it returns, or it raises a value
\* of one of these kinds (an Error, a string, undefined, an object without a
\* message)
RaisedKinds == {"Error", "string", "undefined", "noMessage"}

\* the type penalty after the cap of lines 155-156
cappedTypePoints(points, typePoints, deducted) ==
  IF typePoints + deducted > points
  THEN typePoints - (points - deducted)
  ELSE typePoints

\* lines 135-160: the probe is awaited inside try/catch.
\* a: [points, hasMessage, messagePoints, hasType, typePoints, raises, kind,
\*     messageMatches, isInstance]; messagePoints/typePoints are NoPoints
\* when they are not numbers
tryProbe(L, a) ==
  IF ~a.raises THEN Outcome(deductPoints(L, a.points), "none")
  ELSE IF ~a.hasMessage /\ ~a.hasType THEN Outcome(L, "none")
  ELSE IF a.hasMessage /\ a.kind \in {"undefined", "noMessage"}
       THEN Outcome(L, "TypeError")   \* e.message / errorMessage.trim() throws
  ELSE
    LET msgBad == a.hasMessage /\ ~a.messageMatches
        L1 == IF msgBad THEN deductPoints(L, a.messagePoints) ELSE L
        deducted == IF msgBad THEN a.messagePoints ELSE 0
    IN IF a.hasType /\ ~a.isInstance
       THEN IF a.kind = "undefined"
            THEN Outcome(L1, "TypeError")   \* e.name on undefined throws
            ELSE Outcome(deductPoints(L1,
                   cappedTypePoints(a.points, a.typePoints, deducted)), "none")
       ELSE Outcome(L1, "none")

\* the outcome of assertThrows and whether it ran the probe
Ran(o, ran) == [ledger |-> o.ledger, thrown |-> o.thrown, ran |-> ran]

assertThrowsUnpaired(L, a) == Ran(tryProbe(L, a), TRUE)

\* lines 129-161; lines 130-133 reject unpaired arguments before the try
assertThrows(L, a) ==
  IF a.hasMessage /\ a.messagePoints = NoPoints THEN Ran(Outcome(L, "TypeError"), FALSE)
  ELSE IF a.hasType /\ a.typePoints = NoPoints THEN Ran(Outcome(L, "TypeError"), FALSE)
  ELSE Ran(tryProbe(L, a), TRUE)

\* the argument lists tried; fields the call never reads are fixed
ThrowsArgs ==
  {a \in [points : Points, hasMessage : BOOLEAN,
           messagePoints : Points \cup {NoPoints},
           hasType : BOOLEAN, typePoints : Points \cup {NoPoints},
           raises : BOOLEAN, kind : RaisedKinds,
           messageMatches : BOOLEAN, isInstance : BOOLEAN] :
     /\ ~a.hasMessage => (a.messagePoints = NoPoints /\ a.messageMatches)
     /\ ~a.hasType => (a.typePoints = NoPoints /\ a.isInstance)
     /\ ~a.raises => (a.kind = "Error" /\ a.messageMatches /\ a.isInstance)
     \* the probe is not run when the arguments are rejected
     /\ (a.hasMessage /\ a.messagePoints = NoPoints) => ~a.raises
     /\ (a.hasType /\ a.typePoints = NoPoints) => ~a.raises
     /\ (~a.hasMessage /\ ~a.hasType) => a.kind = "Error"
     \* only an Error can be an instance of the expected type, and only a
     \* string or an Error carries a message
     /\ (a.hasType /\ a.kind # "Error") => ~a.isInstance
     /\ (a.hasMessage /\ a.kind \in {"undefined", "noMessage"}) => ~a.messageMatches}

\* ------------------------------------------------------------------ values
\* length of an ObjectId in hex (line 294)
IdLen == 24
HexLower == {"0", "1", "2", "3", "4", "5", "6", "7", "8", "9",
             "a", "b", "c", "d", "e", "f"}

Fill(c, n) == [i \in 1..n |-> c]

\* the _id property of a value: absent, a string, or something else
NoIdField == [type |-> "undefined", chars |-> <<>>]
StrId(chars) == [type |-> "string", chars |-> chars]
NumId == [type |-> "number", chars |-> <<>>]

IdGood == Fill("a", IdLen - 1) \o <<"7">>
IdShort == Fill("a", IdLen - 1)
IdLong == Fill("a", IdLen + 1)
IdUpper == Fill("a", IdLen - 1) \o <<"A">>
IdNonHex == <<"g">> \o Fill("0", IdLen - 1)

\* a JavaScript value: an object with an _id and other fields (rest), or a
\* string (rest names its text)
Obj(id, rest) == [type |-> "object", id |-> id, rest |-> rest]
Str(text) == [type |-> "string", id |-> NoIdField, rest |-> text]

\* assert.deepStrictEqual(actual, expected) does not throw
deepStrictEqual(actual, expected) == actual = expected

\* what a probe does: it returns a value or raises one of RaisedKinds
Returned(v) == [raises |-> FALSE, kind |-> "Error", value |-> v]
Raised(kind) == [raises |-> TRUE, kind |-> kind, value |-> Str(0)]

\* how assertDeepEquals sees a probe, lines 76-88
probeClass(po, expectedValue) ==
  IF po.raises THEN (IF po.kind = "undefined" THEN "raisesUndefined" ELSE "raises")
  ELSE IF deepStrictEqual(po.value, expectedValue) THEN "equal"
  ELSE "unequal"

RECURSIVE anyEqual(_, _)
\* the loop of lines 107-112: the first deep-equal element returns
anyEqual(actual, expectedValues) ==
  IF expectedValues = <<>> THEN FALSE
  ELSE IF deepStrictEqual(actual, expectedValues[1]) THEN TRUE
  ELSE anyEqual(actual, Tail(expectedValues))

\* lines 98-116
assertDeepEqualsOptions(L, points, po, expectedValues) ==
  IF po.raises
  THEN IF po.kind = "undefined" THEN Outcome(L, "TypeError")
       ELSE Outcome(deductPoints(L, points), "none")
  ELSE IF anyEqual(po.value, expectedValues) THEN Outcome(L, "none")
  ELSE Outcome(deductPoints(L, points), "none")

\* /[a-f0-9]{24}/.test(s): some run of 24 lowercase-hex characters
hexRunTest(s) ==
  \E k \in 1..(Len(s) - IdLen + 1) :
     \A j \in k..(k + IdLen - 1) : s[j] \in HexLower

idInvalidLengthOnly(id) == id.type # "string" \/ Len(id.chars) # IdLen

\* lines 293-295: the condition under which the wrapper throws
idInvalid(id) ==
  id.type # "string" \/ Len(id.chars) # IdLen \/ ~hexRunTest(id.chars)

\* the probe assertWithoutId hands to the assertion, lines 289-300
withoutIdProbe(po) ==
  IF po.raises THEN po
  ELSE IF po.value.type = "object"
       THEN IF idInvalid(po.value.id) THEN Raised("string")
            ELSE Returned([po.value EXCEPT !.id = NoIdField])
  ELSE po

\* lines 283-304 with assertion = this.assertDeepEquals: the outcome of the
\* assertion and the value returned (_id is assigned at line 292, before it
\* is validated)
assertWithoutId(L, points, po, expectedValue) ==
  LET o == assertDeepEquals(L, points, probeClass(withoutIdProbe(po), expectedValue))
  IN [ledger |-> o.ledger, thrown |-> o.thrown,
      ret |-> IF ~po.raises /\ po.value.type = "object" THEN po.value.id
              ELSE NoIdField]

\* an HTTP exchange: net is FALSE when fetch rejects; text names the body,
\* parses tells whether it is JSON and json is the value it parses to
Response(net, status, text, parses, json) ==
  [net |-> net, status |-> status, text |-> text, parses |-> parses, json |-> json]

requestSwallowsFailure(res) ==
  [thrown |-> "none", status |-> res.status, text |-> res.text]

\* request(), lines 170-189: [res.status, await res.text()], or the Error
\* 'Could not complete request ... Server either didn't start, is at an
\* unexpected URL, or crashed' thrown when fetch rejects
request(res) ==
  IF ~res.net THEN [thrown |-> "Error", status |-> res.status, text |-> res.text]
  ELSE [thrown |-> "none", status |-> res.status, text |-> res.text]

\* assertRequestStatus, lines 315-324
assertRequestStatus(L, points, res, expectedStatus) ==
  IF request(res).thrown # "none" THEN Outcome(L, request(res).thrown)
  ELSE IF request(res).status = expectedStatus THEN Outcome(L, "none")
  ELSE Outcome(deductPoints(L, points), "none")

assertRequestDeepEqualsAnyStatus(L, points, res, expectedValue) ==
  IF request(res).thrown # "none" THEN Outcome(L, request(res).thrown)
  ELSE IF expectedValue.type # "string"
       THEN IF ~res.parses THEN Outcome(deductPoints(L, points), "none")
            ELSE assertDeepEquals(L, points,
                                  probeClass(Returned(res.json), expectedValue))
  ELSE assertDeepEquals(L, points,
                        probeClass(Returned(Str(res.text)), expectedValue))

\* lines 199-229; request() is awaited outside any try
assertRequestDeepEquals(L, points, res, expectedValue) ==
  IF request(res).thrown # "none" THEN Outcome(L, request(res).thrown)
  ELSE IF request(res).status # 200 THEN Outcome(deductPoints(L, points), "none")
  ELSE IF expectedValue.type # "string"
       THEN IF ~res.parses THEN Outcome(deductPoints(L, points), "none")
            ELSE assertDeepEquals(L, points,
                                  probeClass(Returned(res.json), expectedValue))
  ELSE assertDeepEquals(L, points,
                        probeClass(Returned(Str(res.text)), expectedValue))

\* the probes, expected values and responses tried
ProbeValues ==
  { Obj(StrId(IdGood), 1), Obj(StrId(IdGood), 2), Obj(StrId(IdShort), 1),
    Obj(StrId(IdLong), 1), Obj(StrId(IdUpper), 1), Obj(StrId(IdNonHex), 1),
    Obj(NumId, 1), Obj(NoIdField, 1), Str(1) }
Probes == {Returned(v) : v \in ProbeValues} \cup {Raised(k) : k \in RaisedKinds}
ExpectedValue == Obj(NoIdField, 1)
ExpectedOptions ==
  { <<>>, <<Obj(NoIdField, 1)>>, <<Obj(NoIdField, 2), Obj(NoIdField, 1)>>,
    <<Str(2), Obj(StrId(IdGood), 2)>> }
Responses ==
  { Response(FALSE, 0, 0, FALSE, Str(0)),
    Response(TRUE, 404, 1, FALSE, Str(0)),
    Response(TRUE, 200, 1, FALSE, Str(0)),
    Response(TRUE, 200, 2, TRUE, Obj(NoIdField, 1)),
    Response(TRUE, 200, 2, TRUE, Obj(NoIdField, 2)) }
RequestExpected == {Obj(NoIdField, 1), Str(1)}
ExpectedStatuses == {200, 404}

\* ------------------------------------------------------- submission trees
\* A start script is the sequence of its words; <<>> is null/absent.
NoScript == <<>>
NodeApp == <<"node", "app.js">>
NpmStart == <<"npm", "start">>

\* package.json contents: valid is FALSE when the text is not JSON
NoManifest == [present |-> FALSE, valid |-> FALSE, start |-> NoScript,
               deps |-> FALSE, author |-> "", module |-> FALSE]
MfGood == [present |-> TRUE, valid |-> TRUE, start |-> NodeApp,
           deps |-> TRUE, author |-> "alice", module |-> TRUE]
MfNoStart == [present |-> TRUE, valid |-> TRUE, start |-> NoScript,
              deps |-> FALSE, author |-> "", module |-> FALSE]
MfMalformed == [present |-> TRUE, valid |-> FALSE, start |-> NoScript,
                deps |-> FALSE, author |-> "", module |-> FALSE]

\* a directory entry of fs.readdir(..., {recursive, withFileTypes}): path is
\* the directory holding it, json the contents when it is a manifest
File(name, path) == [name |-> name, isDir |-> FALSE, path |-> path, json |-> NoManifest]
Dir(name, path) == [name |-> name, isDir |-> TRUE, path |-> path, json |-> NoManifest]
Manifest(path, json) == [name |-> "package.json", isDir |-> FALSE, path |-> path, json |-> json]

Workspace == <<"current_submission">>
SubDir == <<"current_submission", "sub">>

TreeGood == << Dir("sub", Workspace), File("app.js", SubDir),
               File("db.js", SubDir), Manifest(SubDir, MfGood) >>
TreeNoManifest == << Dir("sub", Workspace), File("app.js", SubDir) >>
TreeMalformed == << Dir("sub", Workspace), File("app.js", SubDir),
                    Manifest(SubDir, MfMalformed) >>
TreeModules ==
  << Dir("sub", Workspace), File("app.js", SubDir), Dir("inner", SubDir),
     Dir("node_modules", SubDir), Manifest(SubDir, MfNoStart),
     Dir("node_modules", SubDir \o <<"inner">>),
     File("lib.js", SubDir \o <<"node_modules">>),
     File("x.js", SubDir \o <<"inner", "node_modules">>) >>
TreeNested ==
  << Dir("sub", Workspace), Dir("proj", SubDir),
     File("db.js", SubDir \o <<"proj">>),
     Manifest(SubDir \o <<"proj">>, MfNoStart) >>
TreeEmpty == << Dir("sub", Workspace) >>
\* the listing is in directory order: an unreadable manifest may precede a
\* node_modules directory
TreeBrokenModules ==
  << Dir("sub", Workspace), Manifest(SubDir, MfMalformed),
     Dir("node_modules", SubDir), File("app.js", SubDir) >>

\* required files in two directories and no manifest
TreeSplit ==
  << Dir("sub", Workspace), File("app.js", SubDir), Dir("inner", SubDir),
     File("db.js", SubDir \o <<"inner">>) >>

Trees == {TreeGood, TreeNoManifest, TreeMalformed, TreeModules, TreeNested,
          TreeEmpty, TreeBrokenModules, TreeSplit}

\* entry.path.includes('node_modules')
PathHasModules(path) == \E i \in DOMAIN path : path[i] = "node_modules"

\* ------------------------------------------------------------------ errors
NoError == [type |-> "none", msg |-> "", files |-> <<>>]
Err(type, msg) == [type |-> type, msg |-> msg, files |-> <<>>]
MissingFilesError(files) == [type |-> "Error", msg |-> "Missing file(s)", files |-> files]
FatalError == Err("FatalGraderError", "Failed to kill student submission process.")

\* ------------------------------------------------------------------ checks
\* The Grader fields checks() works on; modulesFlagged (history) counts the
\* deductions of line 470.
NewGrader ==
  [ledger |-> NewLedger, hadModules |-> FALSE, directory |-> Workspace,
   packageJson |-> NoManifest, author |-> "", module |-> TRUE,
   startScript |-> NoScript, found |-> {}, thrown |-> NoError,
   modulesFlagged |-> 0]

importJSONLenient(json) == [value |-> json, thrown |-> NoError]

\* importJSON, lines 402-416: the parsed contents, or the string thrown for
\* a SyntaxError of JSON.parse
importJSON(json) ==
  IF json.valid THEN [value |-> json, thrown |-> NoError]
  ELSE [value |-> NoManifest, thrown |-> Err("string", "Malformed JSON syntax")]

\* the rest of an iteration of the loop, lines 473-482
scanOther(g, entry, requiredFiles) ==
  IF g.hadModules /\ PathHasModules(entry.path) THEN g
  ELSE IF entry.name = "package.json"
  THEN IF importJSON(entry.json).thrown = NoError
       THEN [g EXCEPT !.directory = entry.path,
                      !.packageJson = importJSON(entry.json).value]
       ELSE [g EXCEPT !.directory = entry.path,
                      !.thrown = importJSON(entry.json).thrown]
  ELSE IF entry.name \in Range(requiredFiles)
  THEN [g EXCEPT !.found = g.found \cup {entry.name},
                 !.directory = IF g.packageJson.present THEN g.directory ELSE entry.path]
  ELSE g

scanEntryEveryModules(g, entry, requiredFiles) ==
  IF entry.isDir /\ entry.name = "node_modules"
  THEN [g EXCEPT !.hadModules = TRUE,
                 !.ledger = deductPoints(g.ledger, ModulesPenalty),
                 !.modulesFlagged = @ + 1]
  ELSE scanOther(g, entry, requiredFiles)

\* one iteration of the loop of lines 467-483
scanEntry(g, entry, requiredFiles) ==
  IF ~g.hadModules /\ entry.isDir /\ entry.name = "node_modules"
  THEN [g EXCEPT !.hadModules = TRUE,
                 !.ledger = deductPoints(g.ledger, ModulesPenalty),
                 !.modulesFlagged = @ + 1]
  ELSE scanOther(g, entry, requiredFiles)

RECURSIVE scan(_, _, _)
\* the loop of lines 467-483; importJSON throwing ends it
scan(g, entries, requiredFiles) ==
  IF entries = <<>> \/ g.thrown # NoError THEN g
  ELSE scan(scanEntry(g, entries[1], requiredFiles), Tail(entries), requiredFiles)

checkPackageJsonManifestOnly(g, defaultStartScript) ==
  IF ~g.packageJson.present
  THEN [g EXCEPT !.ledger = deductPoints(g.ledger, PackagePenalty),
                 !.startScript = defaultStartScript]
  ELSE [g EXCEPT !.module = g.packageJson.module,
                 !.startScript = IF g.packageJson.start = NoScript
                                 THEN defaultStartScript ELSE g.packageJson.start]

\* lines 485-501
checkPackageJson(g, defaultStartScript) ==
  IF ~g.packageJson.present
  THEN [g EXCEPT !.ledger = deductPoints(g.ledger, PackagePenalty),
                 !.startScript = defaultStartScript]
  ELSE LET g1 == [g EXCEPT !.module = g.packageJson.module,
                           !.author = IF g.packageJson.author # ""
                                      THEN g.packageJson.author ELSE g.author]
       IN IF g.packageJson.start = NoScript
          THEN [g1 EXCEPT !.ledger = deductPoints(g1.ledger, PackagePenalty),
                          !.startScript = defaultStartScript]
          ELSE [g1 EXCEPT !.startScript = g.packageJson.start]

\* lines 503-507: the required files not marked found, in configured order
missingFiles(g, requiredFiles) ==
  FilterSeq(requiredFiles, Range(requiredFiles) \ g.found)

\* what the collections check of lines 508-530 and npm i can do
CollectionsOutcomes == {"ok", "unreadable", "mismatch"}

\* checks(): opts is the assignment configuration, entries the extracted tree,
\* collections and npmOk what the environment does
checks(g0, opts, entries, collections, npmOk) ==
  LET g1 == scan(g0, entries, opts.requiredFiles)
      g2 == IF opts.checkPackage THEN checkPackageJson(g1, opts.defaultStartScript) ELSE g1
      missing == missingFiles(g2, opts.requiredFiles)
  IN IF g1.thrown # NoError THEN g1
     ELSE IF missing # <<>> THEN [g2 EXCEPT !.thrown = MissingFilesError(missing)]
     ELSE IF opts.hasDatabase /\ opts.requiredCollections # <<>> /\ collections = "unreadable"
          THEN [g2 EXCEPT !.thrown = Err("Error", "Couldn't read collections configuration.")]
     ELSE IF opts.hasDatabase /\ opts.requiredCollections # <<>> /\ collections = "mismatch"
          THEN [g2 EXCEPT !.thrown = Err("Error", "Collections error")]
     ELSE IF g2.packageJson.present /\ g2.packageJson.deps /\ ~npmOk
          THEN [g2 EXCEPT !.thrown = Err("Error", "npm i failed")]
     ELSE g2

\* --------------------------------------------------------- archive names
\* A file name is the sequence of its characters (the extension is one item).
NameLate == <<"j", "_", "L", "A", "T", "E", "_", "1", "2", ".zip">>
NamePlain == <<"k", "_", "3", ".zip">>
NameNoMatch == <<"n", "o", ".zip">>
NameUnderscored == <<"a", "_", "b", "_", "1", ".zip">>
NameLateNoDigits == <<"j", "_", "L", "A", "T", "E", "_", "x", ".zip">>
NameLateNoSeparator == <<"j", "_", "L", "A", "T", "E", "1", ".zip">>
NameNoPrefix == <<"_", "4", "2", ".zip">>
NameText == <<"r", ".txt">>
NoName == <<>>

Digits == {"0", "1", "2", "3", "4", "5", "6", "7", "8", "9"}

\* file.endsWith('.zip')
endsWithZip(name) == name # <<>> /\ name[Len(name)] = ".zip"

RECURSIVE digitRun(_, _)
\* ([0-9]+), greedy, from position k
digitRun(name, k) ==
  IF k <= Len(name) /\ name[k] \in Digits
  THEN <<name[k]>> \o digitRun(name, k + 1)
  ELSE <<>>

canvasIdExecNoLate(name) ==
  LET us == {i \in DOMAIN name : name[i] = "_"}
  IN IF us = {} THEN <<>>
     ELSE digitRun(name, (CHOOSE j \in us : \A k \in us : j <= k) + 1)

\* canvasIdRegex = /^[^_]*?(?:_LATE|)_([0-9]+)/ : group 1, or <<>> when the
\* name does not match
canvasIdExec(name) ==
  LET us == {i \in DOMAIN name : name[i] = "_"}
  IN IF us = {} THEN <<>>
     ELSE LET i == CHOOSE j \in us : \A k \in us : j <= k
              late == /\ Len(name) >= i + 5
                      /\ SubSeq(name, i, i + 4) = <<"_", "L", "A", "T", "E">>
                      /\ name[i + 5] = "_"
          IN IF late /\ digitRun(name, i + 6) # <<>> THEN digitRun(name, i + 6)
             ELSE digitRun(name, i + 1)

\* ------------------------------------------------------------ configuration
\* what checks() reads of assignmentConfig
Defaults == [checkPackage |-> TRUE, requiredFiles |-> <<>>, startScript |-> NoScript]
OwnStart == [checkPackage |-> TRUE, requiredFiles |-> <<"app.js">>,
             startScript |-> NpmStart]
WithManifest == [checkPackage |-> TRUE, requiredFiles |-> <<"package.json", "app.js">>,
                 startScript |-> NoScript]
NoPackageCheck == [checkPackage |-> FALSE, requiredFiles |-> <<"app.js", "db.js">>,
                   startScript |-> NoScript]

\* assignmentConfig and whether canvasConfig is given. requiredCollections is
\* non-empty exactly with hasDatabase (an empty list acts as a check that
\* passes).
Config(onlyCurrent, canvas, hasDatabase, runStartScript, o) ==
  [onlyCurrent |-> onlyCurrent, canvas |-> canvas, hasDatabase |-> hasDatabase,
   requiredCollections |-> IF hasDatabase THEN <<"users">> ELSE <<>>,
   runStartScript |-> runStartScript, checkPackage |-> o.checkPackage,
   requiredFiles |-> o.requiredFiles, startScript |-> o.startScript]

\* The configurations explored: every combination of canvas, hasDatabase and
\* runStartScript occurs in a batch, every combination of hasDatabase and
\* runStartScript with onlyCurrent, and each of the four options of checks()
\* occurs with both values of each flag.
Configs ==
  { Config(FALSE, FALSE, FALSE, FALSE, Defaults),
    Config(FALSE, TRUE, TRUE, TRUE, Defaults),
    Config(FALSE, FALSE, TRUE, TRUE, OwnStart),
    Config(FALSE, TRUE, FALSE, FALSE, OwnStart),
    Config(FALSE, TRUE, FALSE, TRUE, WithManifest),
    Config(FALSE, FALSE, TRUE, FALSE, WithManifest),
    Config(FALSE, TRUE, TRUE, FALSE, NoPackageCheck),
    Config(FALSE, FALSE, FALSE, TRUE, NoPackageCheck),
    Config(TRUE, FALSE, TRUE, TRUE, Defaults),
    Config(TRUE, FALSE, FALSE, FALSE, OwnStart),
    Config(TRUE, FALSE, FALSE, TRUE, WithManifest),
    Config(TRUE, FALSE, TRUE, FALSE, NoPackageCheck) }

defaultStartScriptAsConfigured(c) == c.startScript

\* constructor, line 35: assignmentConfig.startScript || 'node app.js'
defaultStartScript(c) == IF c.startScript = NoScript THEN NodeApp ELSE c.startScript

\* ------------------------------------------------------------------- state
VARIABLES
  cfg,               \* assignmentConfig / canvasConfig of this run
  pc,                \* where autoGrade (and the Grader.run it awaits) stands
  nfiles,            \* number of entries of submissionsDir
  idx,               \* entries of submissionsDir already iterated
  sub,               \* the loop variable: name of the current archive
  tree,              \* entries below current_submission
  workspace,         \* whose files <originalDir>/current_submission holds:
                     \* 0 for what a previous run left, else the iteration
  cwd,               \* process.cwd()
  grader,            \* fields of the current Grader
  graderSet,         \* grader # null
  subprocess,        \* this.subprocess # null
  subprocessClosed,  \* this.subprocessClosed
  db,                \* this.db # null
  proc,              \* the process this Grader spawned: none, running,
                     \* killed (signalled), exited
  stray,             \* a process of an earlier Grader was left running
  killLog,           \* history: the kill() calls made on this Grader's process
  cleanupLog,        \* history: what each cleanup() call of this Grader did
  outLog,            \* history: what was printed for which iteration
  resolvedBy,        \* history: what resolved the promise of start()
  printed,           \* history: iterations whose comments were printed
  e,                 \* the error being thrown / caught
  students,          \* [author, sub] of the queued submissions
  canvasBuffer,      \* student ids of the records buffered by canvas.addStudent
  added,             \* history: arguments of this iteration's addStudent call
  sendCalls,         \* calls of canvas.sendUpdate
  uploaded,          \* archives moved to the uploaded directory
  stepLimit,         \* assertion calls a testCases() run makes
  nAsserts,          \* assertion calls made by the current testCases()
  lastCall,          \* history: the assertion call that just ended
  phases,            \* history: phases the current Grader began, in order
  raisedIn,          \* history: the phase of the current Grader that raised
  testsDone,         \* history: testCases() of the current Grader returned
  fatalRaised,       \* history: a FatalGraderError was thrown in this run
  extracted,         \* history: archives extracted so far
  recorded,          \* history: iterations whose result was printed/queued
  result             \* history: the result most recently returned by run()

vars == <<cfg, pc, nfiles, idx, sub, tree, workspace, cwd, grader, graderSet, subprocess,
          subprocessClosed, db, proc, stray, killLog, resolvedBy, printed, e,
          students, canvasBuffer, added, sendCalls,
          uploaded, stepLimit, nAsserts, lastCall, phases, raisedIn, testsDone,
          fatalRaised, extracted, recorded, result, cleanupLog, outLog>>

NoCall == [op |-> "none", points |-> 0, raised |-> FALSE, both |-> FALSE,
           total |-> 0, n |-> 0, threw |-> "none", paired |-> TRUE,
           ran |-> FALSE, args |-> <<>>,
           probe |-> Returned(Str(0)), expected |-> <<>>, ret |-> NoIdField]
NoResult == [grade |-> -1, comments |-> <<>>]

\* the record canvas.addStudent(studentId, grade, comments) buffers
addStudent(studentId, grade, comments_) ==
  [id |-> studentId, grade |-> grade, comments |-> comments_]
NoAdded == addStudent(<<>>, -1, <<>>)

score == grader.ledger.score
comments == grader.ledger.comments

InitCommon ==
  /\ nfiles = 0 /\ idx = 0 /\ sub = NoName /\ tree = <<>>
  /\ cwd = <<>>
  /\ grader = NewGrader /\ graderSet = FALSE
  /\ subprocess = FALSE /\ subprocessClosed = TRUE /\ db = FALSE
  /\ proc = "none" /\ stray = FALSE /\ e = NoError
  /\ killLog = <<>> /\ resolvedBy = "none" /\ printed = {}
  /\ workspace = {0} /\ cleanupLog = <<>> /\ outLog = {}
  /\ students = <<>> /\ canvasBuffer = <<>> /\ added = NoAdded /\ sendCalls = 0 /\ uploaded = {}
  /\ nAsserts = 0 /\ lastCall = NoCall /\ phases = <<>> /\ raisedIn = "none"
  /\ testsDone = FALSE /\ fatalRaised = FALSE /\ extracted = 0
  /\ recorded = {} /\ result = NoResult

Init ==
  /\ cfg \in Configs
  /\ pc = "autoGrade"
  /\ stepLimit = BatchAsserts
  /\ InitCommon

\* --------------------------------------------------------------- lifecycle
\* where a rejected run() lands: the catch block of the loop in a batch,
\* the rejection of autoGrade itself with onlyCurrent (lines 38-43)
throwTarget == IF cfg.onlyCurrent THEN "rejected" ELSE "catch"

\* e instanceof FatalGraderError, line 87
isFatalNever(err) == FALSE

isFatal(err) == err.type = "FatalGraderError"

\* run(), lines 565-570: the phase that follows a completed phase
afterChecksAlwaysSetsUp(c) == "setupDatabase"

afterChecks(c) ==
  IF c.hasDatabase THEN "setupDatabase"
  ELSE IF c.runStartScript THEN "start"
  ELSE "testCases"

afterSetupDatabase(c) == IF c.runStartScript THEN "start" ELSE "testCases"

\* a new GraderClass(assignmentConfig) replaces the current one
FreshGrader ==
  /\ grader' = NewGrader /\ graderSet' = TRUE
  /\ subprocess' = FALSE /\ subprocessClosed' = TRUE /\ db' = FALSE
  /\ proc' = "none" /\ stray' = (stray \/ proc = "running")
  /\ killLog' = <<>> /\ cleanupLog' = <<>> /\ resolvedBy' = "none"
  /\ nAsserts' = 0 /\ lastCall' = NoCall /\ phases' = <<>>
  /\ raisedIn' = "none" /\ testsDone' = FALSE /\ result' = NoResult

\* lines 38-39: the submission already in current_submission is graded
OnlyCurrent ==
  /\ pc = "autoGrade" /\ cfg.onlyCurrent
  /\ \E t \in Trees : tree' = t
  /\ FreshGrader
  /\ pc' = "checks"
  /\ UNCHANGED <<cfg, nfiles, idx, sub, workspace, cwd, e, students, canvasBuffer, added,
                 sendCalls, uploaded, stepLimit, printed, fatalRaised, extracted,
                 recorded, outLog>>

\* lines 44-60: the submissions directory is checked and listed
BatchSetup ==
  /\ pc = "autoGrade" /\ ~cfg.onlyCurrent
  /\ \E accessible \in BOOLEAN :
       IF accessible
       THEN /\ nfiles' \in 0..MaxFiles
            /\ pc' = "loop" /\ e' = e
       ELSE /\ nfiles' = nfiles /\ pc' = "rejected"
            /\ e' = Err("Error", "Submissions directory is inaccessible or does not exist")
  /\ UNCHANGED <<cfg, idx, sub, tree, workspace, cwd, grader, graderSet, subprocess,
                 subprocessClosed, db, proc, students, canvasBuffer, added, sendCalls,
                 uploaded, stepLimit, stray, killLog, cleanupLog, resolvedBy, printed, nAsserts, lastCall, phases, raisedIn,
                 testsDone, fatalRaised, extracted, recorded, outLog, result>>

\* the names the directory listing can hold; without a gradebook a name is
\* only tested for its extension
FileNames ==
  IF cfg.canvas THEN {NameLate, NamePlain, NameNoMatch, NameText}
  ELSE {NamePlain, NameText}

\* process.cwd() when autoGrade starts; every path of the model is relative
\* to it
OriginalDir == <<>>

loopChdirStays(dir) == dir

\* line 66: process.chdir(originalDir); dir is the directory before
loopChdir(dir) == OriginalDir

\* line 68: fs.rm('current_submission', {recursive, force}) resolves the
\* relative name against the working directory; elsewhere there is no such
\* directory and force makes that no error
rmWorkspace(dir, ws) == IF dir = OriginalDir THEN {} ELSE ws

\* line 70: zip.extractAllTo('current_submission/<name>'), again relative
extractAllTo(dir, ws, i) == IF dir = OriginalDir THEN ws \cup {i} ELSE ws

\* lines 61-71: the next entry of the listing; a .zip is extracted into the
\* emptied workspace and gets a new Grader
LoopNext ==
  /\ pc = "loop" /\ idx < nfiles
  /\ idx' = idx + 1
  /\ \E name \in FileNames :
       IF ~endsWithZip(name)
       THEN /\ pc' = "loop"
            /\ UNCHANGED <<sub, tree, workspace, cwd, grader, graderSet, subprocess,
                           subprocessClosed, db, proc, stray, killLog, cleanupLog, resolvedBy, printed, e, nAsserts,
                           lastCall, phases, raisedIn, testsDone, extracted,
                           result, added, outLog>>
       ELSE /\ sub' = name /\ printed' = printed /\ added' = NoAdded
            /\ cwd' = loopChdir(cwd)
            /\ outLog' = outLog \cup {<<idx', "grading">>}
            /\ \E zipOk \in BOOLEAN :
                 IF zipOk
                 THEN /\ \E t \in Trees : tree' = t
                      /\ workspace' = extractAllTo(cwd', rmWorkspace(cwd', workspace), idx')
                      /\ FreshGrader
                      /\ extracted' = extracted + 1
                      /\ pc' = "checks" /\ e' = NoError
                 ELSE /\ tree' = <<>>
                      /\ workspace' = rmWorkspace(cwd', workspace)
                      /\ grader' = NewGrader /\ graderSet' = FALSE
                      /\ subprocess' = FALSE /\ subprocessClosed' = TRUE /\ db' = FALSE
                      /\ proc' = "none" /\ stray' = (stray \/ proc = "running")
                      /\ killLog' = <<>> /\ cleanupLog' = <<>> /\ resolvedBy' = "none"
                      /\ nAsserts' = 0 /\ lastCall' = NoCall /\ phases' = <<>>
                      /\ raisedIn' = "none" /\ testsDone' = FALSE /\ result' = NoResult
                      /\ extracted' = extracted
                      /\ pc' = "catch" /\ e' = Err("Error", "Invalid or unsupported zip format")
  /\ UNCHANGED <<cfg, nfiles, students, canvasBuffer, sendCalls, uploaded,
                 stepLimit, fatalRaised, recorded>>

\* line 61: the listing is exhausted
LoopEnd ==
  /\ pc = "loop" /\ idx = nfiles
  /\ pc' = "afterLoop"
  /\ UNCHANGED <<cfg, nfiles, idx, sub, tree, workspace, cwd, grader, graderSet, subprocess,
                 subprocessClosed, db, proc, e, students, canvasBuffer, added, sendCalls,
                 uploaded, stepLimit, stray, killLog, cleanupLog, resolvedBy, printed, nAsserts, lastCall, phases, raisedIn,
                 testsDone, fatalRaised, extracted, recorded, outLog, result>>

\* run(), line 565: checks()
Checks ==
  /\ pc = "checks"
  /\ phases' = Append(phases, "checks")
  /\ \E collections \in CollectionsOutcomes, npmOk \in BOOLEAN :
       LET g == checks(grader,
                       [requiredFiles |-> cfg.requiredFiles,
                        checkPackage |-> cfg.checkPackage,
                        defaultStartScript |-> defaultStartScript(cfg),
                        hasDatabase |-> cfg.hasDatabase,
                        requiredCollections |-> cfg.requiredCollections],
                       tree, collections, npmOk)
       IN /\ grader' = g
             \* process.chdir (line 502) is reached unless importJSON threw
          /\ cwd' = IF g.thrown.type = "string" THEN cwd ELSE g.directory
          /\ IF g.thrown # NoError
             THEN /\ e' = g.thrown /\ raisedIn' = "checks" /\ pc' = throwTarget
             ELSE /\ e' = e /\ raisedIn' = raisedIn /\ pc' = afterChecks(cfg)
  /\ UNCHANGED <<cfg, nfiles, idx, sub, tree, workspace, graderSet, subprocess,
                 subprocessClosed, db, proc, students, canvasBuffer, added, sendCalls,
                 uploaded, stepLimit, stray, killLog, cleanupLog, resolvedBy, printed, nAsserts, lastCall, testsDone, fatalRaised,
                 extracted, recorded, outLog, result>>

\* run(), lines 566-567: setupDatabase(); importing the settings, writing
\* them or connecting can fail
SetupDatabase ==
  /\ pc = "setupDatabase"
  /\ phases' = Append(phases, "setupDatabase")
  /\ \E ok \in BOOLEAN :
       IF ok
       THEN /\ db' = TRUE /\ pc' = afterSetupDatabase(cfg)
            /\ e' = e /\ raisedIn' = raisedIn
       ELSE /\ db' = db /\ pc' = throwTarget
            /\ e' = Err("Error", "setupDatabase failed") /\ raisedIn' = "setupDatabase"
  /\ UNCHANGED <<cfg, nfiles, idx, sub, tree, workspace, cwd, grader, graderSet, subprocess,
                 subprocessClosed, proc, students, canvasBuffer, added, sendCalls,
                 uploaded, stepLimit, stray, killLog, cleanupLog, resolvedBy, printed, nAsserts, lastCall, testsDone, fatalRaised,
                 extracted, recorded, outLog, result>>

startErrorNullOnly(script) ==
  IF script = NoScript
  THEN Err("TypeError", "Cannot read properties of null (reading 'split')")
  ELSE NoError

\* lines 433-435: what start() throws before it spawns; the script is split
\* at the blanks and its first word must be 'node'
startError(script) ==
  IF script = NoScript
  THEN Err("TypeError", "Cannot read properties of null (reading 'split')")
  ELSE IF script[1] # "node"
  THEN Err("Error", "Possibly unsafe start script encountered")
  ELSE NoError

\* start(), lines 433-440: the start script is vetted and spawned
Start ==
  /\ pc = "start"
  /\ phases' = Append(phases, "start")
  /\ IF startError(grader.startScript) # NoError
     THEN /\ e' = startError(grader.startScript)
          /\ raisedIn' = "start" /\ pc' = throwTarget
          /\ UNCHANGED <<subprocessClosed, proc>>
     ELSE /\ subprocessClosed' = FALSE /\ proc' = "running"
          /\ pc' = "starting"
          /\ UNCHANGED <<e, raisedIn>>
  /\ UNCHANGED <<cfg, nfiles, idx, sub, tree, workspace, cwd, grader, graderSet, subprocess,
                 db, students, canvasBuffer, added, sendCalls, uploaded, stepLimit, stray, killLog, cleanupLog, resolvedBy, printed,
                 nAsserts, lastCall, testsDone, fatalRaised, extracted,
                 recorded, outLog, result>>

\* start(), lines 442-450: the timer fires, or a chunk naming the loopback
\* host arrives; either resolves the promise with the process handle.
\* resolvedBy tells a timer that fired after the process had exited apart.
StartResolveNeedsOutput ==
  /\ pc = "starting"
  /\ proc = "running" \/ ~subprocessClosed
  /\ resolvedBy' = "ready"
  /\ subprocess' = TRUE
  /\ pc' = "testCases"
  /\ UNCHANGED <<cfg, nfiles, idx, sub, tree, workspace, cwd, grader, graderSet,
                 subprocessClosed, db, proc, e, students, canvasBuffer, added,
                 sendCalls, uploaded, stepLimit, stray, killLog, cleanupLog, printed, nAsserts,
                 lastCall, phases, raisedIn, testsDone, fatalRaised, extracted,
                 recorded, outLog, result>>

StartResolve ==
  /\ pc = "starting"
  /\ \E signal \in {"timeout", "ready"} :
       /\ signal = "ready" => (proc = "running" \/ ~subprocessClosed)
       /\ resolvedBy' = IF signal = "timeout" /\ proc = "exited"
                        THEN "timeoutAfterExit" ELSE signal
  /\ subprocess' = TRUE
  /\ pc' = "testCases"
  /\ UNCHANGED <<cfg, nfiles, idx, sub, tree, workspace, cwd, grader, graderSet,
                 subprocessClosed, db, proc, e, students, canvasBuffer, added,
                 sendCalls, uploaded, stepLimit, stray, killLog, cleanupLog, printed, nAsserts,
                 lastCall, phases, raisedIn, testsDone, fatalRaised, extracted,
                 recorded, outLog, result>>

\* the positions at which a Grader looks at its process again later on
LifecyclePcs == {"starting", "testCases", "cleanup", "catch"}

\* the student's process ends (by itself, or after the signal of kill())
ProcExit ==
  /\ pc \in LifecyclePcs
  /\ proc \in {"running", "killed"}
  /\ proc' = "exited"
  /\ UNCHANGED <<cfg, pc, nfiles, idx, sub, tree, workspace, cwd, grader, graderSet,
                 subprocess, subprocessClosed, db, e, students, canvasBuffer, added,
                 sendCalls, uploaded, stepLimit, stray, killLog, cleanupLog, resolvedBy, printed, nAsserts, lastCall, phases,
                 raisedIn, testsDone, fatalRaised, extracted, recorded, outLog, result>>

\* line 452: the 'close' listener of the exited process runs
CloseObserver ==
  /\ pc \in LifecyclePcs
  /\ proc = "exited" /\ ~subprocessClosed
  /\ subprocessClosed' = TRUE
  /\ UNCHANGED <<cfg, pc, nfiles, idx, sub, tree, workspace, cwd, grader, graderSet,
                 subprocess, db, proc, e, students, canvasBuffer, added, sendCalls,
                 uploaded, stepLimit, stray, killLog, cleanupLog, resolvedBy, printed, nAsserts, lastCall, phases, raisedIn,
                 testsDone, fatalRaised, extracted, recorded, outLog, result>>

\* ---------------------------------------------------------------- testCases
\* the testCases phase is entered by its first step
beginTests == IF phases # <<>> /\ phases[Len(phases)] = "testCases"
              THEN phases ELSE Append(phases, "testCases")

\* history of one assertion call: its points argument, whether the probe
\* raised, whether both the message and the type of the raised error
\* mismatched, the sum of the points it passed to deductPoints and the
\* number of its deductPoints calls; a step adds what the call threw, whether
\* its arguments were paired, whether it ran its probe, its arguments, its
\* probe, its expected value(s) and what it returned
Call(op, points, raised, both, before, after) ==
  [op |-> op, points |-> points, raised |-> raised, both |-> both,
   total |-> SumSeq(after.calls) - SumSeq(before.calls),
   n |-> Len(after.calls) - Len(before.calls),
   threw |-> "none", paired |-> TRUE, ran |-> TRUE, args |-> <<>>,
   probe |-> Returned(Str(0)), expected |-> <<>>, ret |-> NoIdField]

\* an assertion that throws ends testCases(), and with it run()
afterCall(thrown) ==
  IF thrown = "none"
  THEN UNCHANGED <<pc, e, raisedIn>>
  ELSE /\ pc' = throwTarget /\ raisedIn' = "testCases"
       /\ e' = Err(thrown, "assertion")

TestFrame ==
  UNCHANGED <<cfg, nfiles, idx, sub, tree, workspace, cwd, graderSet, subprocess,
              subprocessClosed, db, proc, students, canvasBuffer, added, sendCalls,
              uploaded, stepLimit, stray, killLog, cleanupLog, resolvedBy, printed, testsDone, fatalRaised, extracted, recorded, outLog,
              result>>

\* a test case calls deductPoints itself
DeductStep ==
  /\ pc = "testCases" /\ nAsserts < stepLimit
  /\ \E points \in DeductArgs :
       LET L == deductPoints(grader.ledger, points)
       IN /\ grader' = [grader EXCEPT !.ledger = L]
          /\ lastCall' = Call("deductPoints", points, FALSE, FALSE, grader.ledger, L)
  /\ nAsserts' = nAsserts + 1
  /\ phases' = beginTests
  /\ UNCHANGED <<pc, e, raisedIn>>
  /\ TestFrame

\* a test case awaits assertDeepEquals
DeepEqualsStep ==
  /\ pc = "testCases" /\ nAsserts < stepLimit
  /\ \E points \in Points, probe \in EqProbes :
       LET o == assertDeepEquals(grader.ledger, points, probe)
       IN /\ grader' = [grader EXCEPT !.ledger = o.ledger]
          /\ lastCall' = [Call("assertDeepEquals", points,
                                probe \in {"raises", "raisesUndefined"}, FALSE,
                                grader.ledger, o.ledger)
                           EXCEPT !.threw = o.thrown]
          /\ afterCall(o.thrown)
  /\ nAsserts' = nAsserts + 1
  /\ phases' = beginTests
  /\ TestFrame

\* a test case awaits assertDeepEqualsOptions
OptionsStep ==
  /\ pc = "testCases" /\ nAsserts < stepLimit
  /\ \E points \in Points, po \in Probes, expectedValues \in ExpectedOptions :
       LET o == assertDeepEqualsOptions(grader.ledger, points, po, expectedValues)
       IN /\ grader' = [grader EXCEPT !.ledger = o.ledger]
          /\ lastCall' = [Call("assertDeepEqualsOptions", points, po.raises, FALSE,
                                grader.ledger, o.ledger)
                           EXCEPT !.threw = o.thrown, !.probe = po,
                                  !.expected = expectedValues]
          /\ afterCall(o.thrown)
  /\ nAsserts' = nAsserts + 1
  /\ phases' = beginTests
  /\ TestFrame

\* a test case awaits assertWithoutId with this.assertDeepEquals
WithoutIdStep ==
  /\ pc = "testCases" /\ nAsserts < stepLimit
  /\ \E points \in Points, po \in Probes :
       LET o == assertWithoutId(grader.ledger, points, po, ExpectedValue)
       IN /\ grader' = [grader EXCEPT !.ledger = o.ledger]
          /\ lastCall' = [Call("assertWithoutId", points, po.raises, FALSE,
                                grader.ledger, o.ledger)
                           EXCEPT !.threw = o.thrown, !.probe = po,
                                  !.expected = <<ExpectedValue>>, !.ret = o.ret]
          /\ afterCall(o.thrown)
  /\ nAsserts' = nAsserts + 1
  /\ phases' = beginTests
  /\ TestFrame

\* a test case awaits assertRequestDeepEquals
RequestStep ==
  /\ pc = "testCases" /\ nAsserts < stepLimit
  /\ \E points \in Points, res \in Responses, expectedValue \in RequestExpected :
       LET o == assertRequestDeepEquals(grader.ledger, points, res, expectedValue)
       IN /\ grader' = [grader EXCEPT !.ledger = o.ledger]
          /\ lastCall' = [Call("assertRequestDeepEquals", points, ~res.net, FALSE,
                                grader.ledger, o.ledger)
                           EXCEPT !.threw = o.thrown, !.args = <<res>>,
                                  !.probe = Returned(IF res.parses THEN res.json
                                                     ELSE Str(res.text)),
                                  !.expected = <<expectedValue>>]
          /\ afterCall(o.thrown)
  /\ nAsserts' = nAsserts + 1
  /\ phases' = beginTests
  /\ TestFrame

\* a test case awaits assertRequestStatus
StatusStep ==
  /\ pc = "testCases" /\ nAsserts < stepLimit
  /\ \E points \in Points, res \in Responses, expectedStatus \in ExpectedStatuses :
       LET o == assertRequestStatus(grader.ledger, points, res, expectedStatus)
       IN /\ grader' = [grader EXCEPT !.ledger = o.ledger]
          /\ lastCall' = [Call("assertRequestStatus", points, ~res.net, FALSE,
                                grader.ledger, o.ledger)
                           EXCEPT !.threw = o.thrown]
          /\ afterCall(o.thrown)
  /\ nAsserts' = nAsserts + 1
  /\ phases' = beginTests
  /\ TestFrame

\* a test case awaits assertThrows; a TypeError it throws ends testCases()
ThrowsStep ==
  /\ pc = "testCases" /\ nAsserts < stepLimit
  /\ \E a \in ThrowsArgs :
       LET o == assertThrows(grader.ledger, a)
       IN /\ grader' = [grader EXCEPT !.ledger = o.ledger]
          /\ lastCall' = [Call("assertThrows", a.points, a.raises,
                                /\ a.raises /\ o.thrown = "none"
                                /\ a.hasMessage /\ ~a.messageMatches
                                /\ a.hasType /\ ~a.isInstance,
                                grader.ledger, o.ledger)
                           EXCEPT !.threw = o.thrown, !.ran = o.ran,
                                  !.args = <<a>>,
                                  !.paired =
                                     /\ a.hasMessage => a.messagePoints # NoPoints
                                     /\ a.hasType => a.typePoints # NoPoints,
                                  !.probe = IF a.raises THEN Raised(a.kind)
                                            ELSE Returned(Str(0))]
          /\ afterCall(o.thrown)
  /\ nAsserts' = nAsserts + 1
  /\ phases' = beginTests
  /\ TestFrame

\* run(), line 570: testCases() returns
TestCasesReturn ==
  /\ pc = "testCases"
  /\ pc' = "cleanup"
  /\ testsDone' = TRUE
  /\ phases' = beginTests
  /\ lastCall' = NoCall
  /\ UNCHANGED <<cfg, nfiles, idx, sub, tree, workspace, cwd, grader, graderSet, subprocess,
                 subprocessClosed, db, proc, e, students, canvasBuffer, added,
                 sendCalls, uploaded, stepLimit, stray, killLog, cleanupLog, resolvedBy, printed, nAsserts, raisedIn, fatalRaised,
                 extracted, recorded, outLog, result>>

\* what testCases() can throw besides the TypeError of assertThrows: a failed
\* request or import of student code, and the Error of the base class
\* (lines 557-559) when the hook is not overridden
TestCaseErrors ==
  { Err("Error", "Could not complete request"),
    Err("Error", "Please implement testCases()") }

TestCasesRaise ==
  /\ pc = "testCases"
  /\ \E err \in TestCaseErrors :
       /\ err.msg = "Please implement testCases()" => nAsserts = 0
       /\ e' = err
  /\ pc' = throwTarget
  /\ raisedIn' = "testCases"
  /\ phases' = beginTests
  /\ lastCall' = NoCall
  /\ UNCHANGED <<cfg, nfiles, idx, sub, tree, workspace, cwd, grader, graderSet, subprocess,
                 subprocessClosed, db, proc, students, canvasBuffer, added, sendCalls,
                 uploaded, stepLimit, stray, killLog, cleanupLog, resolvedBy, printed, nAsserts, testsDone, fatalRaised,
                 extracted, recorded, outLog, result>>

\* ------------------------------------------------------------------ cleanup
\* subprocess.kill(): false once the process is gone, else the result of
\* sending the signal
kill(p, signalSent) == IF p \in {"running", "killed"} THEN signalSent ELSE FALSE

\* cleanup(), lines 581-599. env: dropOk (dropDatabase/close resolve),
\* signalSent (the kill signal is delivered), rmOk (fs.rm resolves). kills
\* lists the kill() call made, with the state of the process at the call and
\* what the call returned
\* dropped tells whether dropDatabase was called, removed names the path
\* given to fs.rm when that call resolved (NoPath when nothing was removed)
NoPath == <<>>

cleanupWarnsOnly(c, g, hasDb, hasProc, closed, p, env) ==
  LET called == hasProc /\ ~closed
      kills == IF called THEN <<[at |-> p, ok |-> kill(p, env.signalSent)]>> ELSE <<>>
      dropped == c.hasDatabase /\ hasDb
      target == g.directory \o <<"node_modules">>
  IN IF dropped /\ ~env.dropOk
     THEN [thrown |-> Err("Error", "dropDatabase failed"), proc |-> p, kills |-> <<>>,
           dropped |-> dropped, removed |-> NoPath]
     ELSE IF ~g.hadModules /\ ~env.rmOk
     THEN [thrown |-> Err("Error", "rm node_modules failed"), proc |-> p,
           kills |-> kills, dropped |-> dropped, removed |-> NoPath]
     ELSE [thrown |-> NoError, proc |-> p, kills |-> kills, dropped |-> dropped,
           removed |-> IF g.hadModules THEN NoPath ELSE target]

cleanupKillsUnchecked(c, g, hasDb, hasProc, closed, p, env) ==
  LET kills == <<[at |-> p, ok |-> kill(p, env.signalSent)]>>
      dropped == c.hasDatabase /\ hasDb
      target == g.directory \o <<"node_modules">>
  IN IF dropped /\ ~env.dropOk
     THEN [thrown |-> Err("Error", "dropDatabase failed"), proc |-> p, kills |-> <<>>,
           dropped |-> dropped, removed |-> NoPath]
     ELSE IF ~kill(p, env.signalSent)
     THEN [thrown |-> FatalError, proc |-> p, kills |-> kills, dropped |-> dropped,
           removed |-> NoPath]
     ELSE IF ~g.hadModules /\ ~env.rmOk
     THEN [thrown |-> Err("Error", "rm node_modules failed"), proc |-> "killed",
           kills |-> kills, dropped |-> dropped, removed |-> NoPath]
     ELSE [thrown |-> NoError, proc |-> "killed", kills |-> kills,
           dropped |-> dropped,
           removed |-> IF g.hadModules THEN NoPath ELSE target]

cleanup(c, g, hasDb, hasProc, closed, p, env) ==
  LET called == hasProc /\ ~closed
      kills == IF called THEN <<[at |-> p, ok |-> kill(p, env.signalSent)]>> ELSE <<>>
      dropped == c.hasDatabase /\ hasDb
      target == g.directory \o <<"node_modules">>
  IN IF dropped /\ ~env.dropOk
     THEN [thrown |-> Err("Error", "dropDatabase failed"), proc |-> p, kills |-> <<>>,
           dropped |-> dropped, removed |-> NoPath]
     ELSE IF called /\ ~kill(p, env.signalSent)
     THEN [thrown |-> FatalError, proc |-> p, kills |-> kills, dropped |-> dropped,
           removed |-> NoPath]
     ELSE LET p1 == IF called THEN "killed" ELSE p
          IN IF ~g.hadModules /\ ~env.rmOk
             THEN [thrown |-> Err("Error", "rm node_modules failed"), proc |-> p1,
                   kills |-> kills, dropped |-> dropped, removed |-> NoPath]
             ELSE [thrown |-> NoError, proc |-> p1, kills |-> kills,
                   dropped |-> dropped,
                   removed |-> IF g.hadModules THEN NoPath ELSE target]

\* what one cleanup() call did, for cleanupLog
CleanupEntry(o) ==
  [dropped |-> o.dropped, killed |-> o.kills # <<>>, removed |-> o.removed,
   thrown |-> o.thrown.type]

CleanupEnv == [dropOk : BOOLEAN, signalSent : BOOLEAN, rmOk : BOOLEAN]

\* run(), line 571: cleanup(); when it resolves run() returns the result
\* (lines 572-575)
RunCleanup ==
  /\ pc = "cleanup"
  /\ phases' = Append(phases, "cleanup")
  /\ \E env \in CleanupEnv :
       LET o == cleanup(cfg, grader, db, subprocess, subprocessClosed, proc, env)
       IN /\ proc' = o.proc /\ killLog' = killLog \o o.kills
          /\ cleanupLog' = Append(cleanupLog, CleanupEntry(o))
          /\ IF o.thrown # NoError
             THEN /\ e' = o.thrown /\ raisedIn' = "cleanup" /\ pc' = throwTarget
                  /\ fatalRaised' = (fatalRaised \/ o.thrown = FatalError)
                  /\ result' = result
             ELSE /\ e' = e /\ raisedIn' = raisedIn /\ pc' = "returned"
                  /\ fatalRaised' = fatalRaised
                  /\ result' = [grade |-> score, comments |-> comments]
  /\ UNCHANGED <<cfg, nfiles, idx, sub, tree, workspace, cwd, grader, graderSet, subprocess,
                 subprocessClosed, db, students, canvasBuffer, added, sendCalls,
                 uploaded, stepLimit, stray, resolvedBy, printed, nAsserts, lastCall, testsDone, extracted,
                 recorded, outLog>>

\* --------------------------------------------------------------- autoGrade
\* lines 40-42: with onlyCurrent the result is printed and autoGrade returns
PrintCurrent ==
  /\ pc = "returned" /\ cfg.onlyCurrent
  /\ recorded' = recorded \cup {idx}
  /\ printed' = printed \cup {idx}
  /\ outLog' = outLog \cup {<<idx, "score">>}
  /\ pc' = "done"
  /\ UNCHANGED <<cfg, nfiles, idx, sub, tree, workspace, cwd, grader, graderSet, subprocess,
                 subprocessClosed, db, proc, e, students, canvasBuffer, added,
                 sendCalls, uploaded, stepLimit, stray, killLog, cleanupLog, resolvedBy, nAsserts, lastCall, phases,
                 raisedIn, testsDone, fatalRaised, extracted, result>>

RecordResultQueuesUnnamed ==
  /\ pc = "returned" /\ ~cfg.onlyCurrent
  /\ recorded' = recorded \cup {idx}
  /\ IF cfg.canvas
     THEN /\ canvasBuffer' = Append(canvasBuffer, canvasIdExec(sub))
          /\ added' = addStudent(canvasIdExec(sub), result.grade, result.comments)
          /\ students' = Append(students, <<grader.author, sub>>)
          /\ printed' = printed
     ELSE /\ printed' = printed \cup {idx}
          /\ UNCHANGED <<canvasBuffer, added, students>>
  /\ pc' = "loop"
  /\ outLog' = outLog \cup {<<idx, "score">>, <<idx, "separator">>}
  /\ UNCHANGED <<cfg, nfiles, idx, sub, tree, workspace, cwd, grader, graderSet, subprocess,
                 subprocessClosed, db, proc, e, sendCalls, uploaded, stepLimit, stray, killLog, cleanupLog, resolvedBy,
                 nAsserts, lastCall, phases, raisedIn, testsDone, fatalRaised,
                 extracted, result>>

\* lines 73-84 and 97: the result is printed, and queued for Canvas when the
\* archive name carries a student id; then the separator
RecordResult ==
  /\ pc = "returned" /\ ~cfg.onlyCurrent
  /\ recorded' = recorded \cup {idx}
  /\ IF cfg.canvas /\ canvasIdExec(sub) # <<>>
     THEN /\ canvasBuffer' = Append(canvasBuffer, canvasIdExec(sub))
          /\ added' = addStudent(canvasIdExec(sub), result.grade, result.comments)
          /\ students' = Append(students, <<grader.author, sub>>)
          /\ printed' = printed
     ELSE /\ printed' = printed \cup {idx}
          /\ UNCHANGED <<canvasBuffer, added, students>>
  /\ pc' = "loop"
  /\ outLog' = outLog \cup {<<idx, "score">>, <<idx, "separator">>}
  /\ UNCHANGED <<cfg, nfiles, idx, sub, tree, workspace, cwd, grader, graderSet, subprocess,
                 subprocessClosed, db, proc, e, sendCalls, uploaded, stepLimit, stray, killLog, cleanupLog, resolvedBy,
                 nAsserts, lastCall, phases, raisedIn, testsDone, fatalRaised,
                 extracted, result>>

\* lines 87-97: a fatal error is announced and breaks the loop before the
\* separator; any other gets the notice, and the separator follows
catchPrints(err, i) ==
  IF isFatal(err) THEN {<<i, "aborting">>}
  ELSE {<<i, "could not grade">>, <<i, "separator">>}

\* lines 85-97, the catch block: cleanup of the grader if there is one; an
\* error it throws leaves autoGrade; else a fatal error breaks the loop and
\* any other is reported before the separator
Catch ==
  /\ pc = "catch"
  /\ \E env \in CleanupEnv :
       LET o == IF graderSet
                THEN cleanup(cfg, grader, db, subprocess, subprocessClosed, proc, env)
                ELSE [thrown |-> NoError, proc |-> proc, kills |-> <<>>,
                      dropped |-> FALSE, removed |-> NoPath]
       IN /\ proc' = o.proc /\ killLog' = killLog \o o.kills
          /\ cleanupLog' = IF graderSet THEN Append(cleanupLog, CleanupEntry(o))
                           ELSE cleanupLog
          /\ phases' = IF graderSet THEN Append(phases, "cleanup") ELSE phases
          /\ IF o.thrown # NoError
             THEN /\ e' = o.thrown /\ pc' = "rejected"
                  /\ fatalRaised' = (fatalRaised \/ o.thrown = FatalError)
                  /\ outLog' = outLog
             ELSE /\ e' = e /\ fatalRaised' = fatalRaised
                  /\ pc' = IF isFatal(e) THEN "afterLoop" ELSE "loop"
                  /\ outLog' = outLog \cup catchPrints(e, idx)
  /\ UNCHANGED <<cfg, nfiles, idx, sub, tree, workspace, cwd, grader, graderSet, subprocess,
                 subprocessClosed, db, students, canvasBuffer, added, sendCalls,
                 uploaded, stepLimit, stray, resolvedBy, printed, nAsserts, lastCall, raisedIn, testsDone,
                 extracted, recorded, result>>

AfterLoopMovesAnyway ==
  /\ pc = "afterLoop"
  /\ IF cfg.canvas /\ students # <<>>
     THEN /\ cwd' = <<>>
          /\ sendCalls' = sendCalls + 1
          /\ uploaded' = {students[i][2] : i \in DOMAIN students}
          /\ \E sent \in BOOLEAN :
               IF sent
               THEN pc' = "done" /\ e' = e
               ELSE pc' = "rejected" /\ e' = Err("Error", "sendUpdate failed")
     ELSE /\ pc' = "done"
          /\ UNCHANGED <<cwd, sendCalls, uploaded, e>>
  /\ UNCHANGED <<cfg, nfiles, idx, sub, tree, workspace, grader, graderSet, subprocess,
                 subprocessClosed, db, proc, students, canvasBuffer, added, stepLimit, stray, killLog, cleanupLog, resolvedBy, printed,
                 nAsserts, lastCall, phases, raisedIn, testsDone, fatalRaised,
                 extracted, recorded, outLog, result>>

\* lines 99-114: the queued grades are sent in one call and their archives
\* moved; sendUpdate failing leaves autoGrade
AfterLoop ==
  /\ pc = "afterLoop"
  /\ IF cfg.canvas /\ students # <<>>
     THEN /\ cwd' = <<>>
          /\ sendCalls' = sendCalls + 1
          /\ \E sent \in BOOLEAN :
               IF sent
               THEN /\ uploaded' = {students[i][2] : i \in DOMAIN students}
                    /\ pc' = "done" /\ e' = e
               ELSE /\ uploaded' = uploaded
                    /\ pc' = "rejected" /\ e' = Err("Error", "sendUpdate failed")
     ELSE /\ pc' = "done"
          /\ UNCHANGED <<cwd, sendCalls, uploaded, e>>
  /\ UNCHANGED <<cfg, nfiles, idx, sub, tree, workspace, grader, graderSet, subprocess,
                 subprocessClosed, db, proc, students, canvasBuffer, added, stepLimit, stray, killLog, cleanupLog, resolvedBy, printed,
                 nAsserts, lastCall, phases, raisedIn, testsDone, fatalRaised,
                 extracted, recorded, outLog, result>>

\* the test cases of a batch use deductPoints, assertDeepEquals and
\* assertThrows; the other assertions are exercised on the lone Grader
Next ==
  \/ OnlyCurrent \/ BatchSetup \/ LoopNext \/ LoopEnd
  \/ Checks \/ SetupDatabase \/ Start \/ StartResolve
  \/ DeductStep \/ DeepEqualsStep \/ ThrowsStep
  \/ TestCasesReturn \/ TestCasesRaise
  \/ RunCleanup \/ PrintCurrent \/ RecordResult \/ Catch \/ AfterLoop
  \/ ProcExit \/ CloseObserver

Spec == Init /\ [][Next]_vars

\* the timer of start() (setTimeout, line 442) fires after five seconds
SpecFair == Spec /\ WF_vars(StartResolve)

\* ------------------------------------------------------ a lone Grader
\* A Grader constructed with the default configuration whose test cases are
\* running: only the assertion engine acts.
LedgerConfig == Config(TRUE, FALSE, FALSE, FALSE, Defaults)

InitLedger ==
  /\ cfg = LedgerConfig
  /\ pc = "testCases"
  /\ stepLimit = MaxAsserts
  /\ nfiles = 0 /\ idx = 0 /\ sub = NoName /\ tree = <<>>
  /\ cwd = <<>>
  /\ grader = NewGrader /\ graderSet = TRUE
  /\ subprocess = FALSE /\ subprocessClosed = TRUE /\ db = FALSE
  /\ proc = "none" /\ stray = FALSE /\ e = NoError
  /\ killLog = <<>> /\ resolvedBy = "none" /\ printed = {}
  /\ workspace = {0} /\ cleanupLog = <<>> /\ outLog = {}
  /\ students = <<>> /\ canvasBuffer = <<>> /\ added = NoAdded /\ sendCalls = 0 /\ uploaded = {}
  /\ nAsserts = 0 /\ lastCall = NoCall /\ phases = <<>> /\ raisedIn = "none"
  /\ testsDone = FALSE /\ fatalRaised = FALSE /\ extracted = 0
  /\ recorded = {} /\ result = NoResult

NextLedger ==
  \/ DeductStep \/ DeepEqualsStep \/ ThrowsStep
  \/ OptionsStep \/ WithoutIdStep \/ RequestStep \/ StatusStep

SpecLedger == InitLedger /\ [][NextLedger]_vars

\* ================================================================== claims
calls == grader.ledger.calls

\* C1: after any sequence of deductPoints calls with non-negative points on
\* one Grader, the score is max(0, 100 - sum of the points) and there is one
\* comment per call.
C1_ScoreIsClampedSum ==
  (\A i \in DOMAIN calls : calls[i] >= 0) =>
     /\ score = Max(0, InitialScore - SumSeq(calls))
     /\ Len(comments) = Len(calls)

\* C1 witness: several calls whose sum exceeds 100 have floored the score
C1_Witness == Len(calls) >= 2 /\ SumSeq(calls) > InitialScore /\ score = 0

\* C2: an assertThrows call whose probe raised an error with both a wrong
\* message and a wrong type deducts at most points in total.
C2_ThrowsTotalWithinPoints ==
  (lastCall.op = "assertThrows" /\ lastCall.raised /\ lastCall.both) =>
     lastCall.total <= lastCall.points

\* C3: once a FatalGraderError has been raised, no further archive is
\* extracted in that run.
C3_NoExtractionAfterFatal == [][fatalRaised => extracted' = extracted]_vars

\* C3 witness: the run ended after a fatal error with entries left over
C3_Witness == fatalRaised /\ pc = "done" /\ idx < nfiles

\* C4: when the test cases of a submission completed and cleanup alone raised
\* the fatal error, the result of that submission has been recorded by the
\* time the loop is left.
C4_ResultRecordedDespiteFatal ==
  (~cfg.onlyCurrent /\ testsDone /\ raisedIn = "cleanup" /\ isFatal(e)
     /\ pc \in {"afterLoop", "done"}) => idx \in recorded

\* C5: for every Grader whose run() was started, cleanup() has been executed
\* by the time autoGrade is done with it.
C5_CleanupAlwaysRuns ==
  (pc \in {"loop", "afterLoop", "done", "rejected"} /\ phases # <<>>) =>
     "cleanup" \in Range(phases)

\* C6: a batch stops before its last entry only on a FatalGraderError.
C6_OnlyFatalStopsBatch ==
  (~cfg.onlyCurrent /\ pc \in {"afterLoop", "done", "rejected"} /\ idx < nfiles) =>
     fatalRaised

\* C7: with a gradebook, sendUpdate is not called while the loop runs, and
\* when autoGrade has ended it was called once if a submission was queued and
\* never otherwise.
C7_OneFlushAfterLoop ==
  (~cfg.onlyCurrent /\ cfg.canvas) =>
     IF pc \in {"done", "rejected"}
     THEN sendCalls = (IF canvasBuffer # <<>> THEN 1 ELSE 0)
     ELSE sendCalls = 0

PhaseRank(ph) ==
  CASE ph = "checks" -> 1
    [] ph = "setupDatabase" -> 2
    [] ph = "start" -> 3
    [] ph = "testCases" -> 4
    [] ph = "cleanup" -> 5

RunPhases == {"checks", "setupDatabase", "start", "testCases"}

\* C8: the phases of a Grader begin in the order checks, setupDatabase (only
\* with hasDatabase), start (only with runStartScript), testCases, cleanup,
\* each at most once before cleanup and only after every earlier one that
\* applies; after a phase raised, nothing but cleanup begins.
C8_PhaseOrder ==
  LET began == Range(phases)
      before == FilterSeq(phases, RunPhases)
  IN /\ \A i, j \in DOMAIN phases :
          i < j => \/ PhaseRank(phases[i]) < PhaseRank(phases[j])
                   \/ (phases[i] = "cleanup" /\ phases[j] = "cleanup")
     /\ phases # <<>> => phases[1] = "checks"
     /\ "setupDatabase" \in began => cfg.hasDatabase
     /\ "start" \in began =>
          (cfg.runStartScript /\ (cfg.hasDatabase => "setupDatabase" \in began))
     /\ "testCases" \in began =>
          /\ cfg.hasDatabase => "setupDatabase" \in began
          /\ cfg.runStartScript => "start" \in began
     /\ raisedIn \in RunPhases => before[Len(before)] = raisedIn
     /\ ("cleanup" \in began /\ raisedIn \notin RunPhases) => testsDone

\* C8 witness: setupDatabase raised although a start script is configured;
\* only cleanup followed
C8_Witness ==
  /\ raisedIn = "setupDatabase" /\ cfg.runStartScript
  /\ phases = <<"checks", "setupDatabase", "cleanup">>

\* C9: the score of a Grader stays between 0 and 100 and no step of its
\* lifecycle increases it.
C9_ScoreBoundedMonotone ==
  [][/\ score' \in 0..InitialScore
     /\ phases' # <<>> => score' <= score]_vars

\* C9 as amended: as long as every point value passed to deductPoints in a
\* lifecycle is non-negative, the score stays between 0 and 100 and no step
\* of the lifecycle increases it.
C9_NonNegativeNeverIncreases ==
  [][(\A i \in DOMAIN calls' : calls'[i] >= 0) =>
        /\ score' \in 0..InitialScore
        /\ phases' # <<>> => score' <= score]_vars

\* C9 witness: a lifecycle of non-negative deductions that floored the score
C9_Witness ==
  /\ score = 0 /\ "checks" \in Range(phases) /\ pc = "returned"
  /\ calls # <<>> /\ \A i \in DOMAIN calls : calls[i] >= 0

\* the required files no entry of the tree has
absentFiles == {f \in Range(cfg.requiredFiles) :
                  ~\E i \in DOMAIN tree : tree[i].name = f}

\* C10: if a required file is absent from the tree, checks() raises an error
\* naming exactly the absent files, and no setupDatabase, start or test case
\* runs.
C10_MissingFilesNamed ==
  ("checks" \in Range(phases) /\ absentFiles # {}) =>
     /\ grader.thrown.msg = "Missing file(s)"
     /\ Range(grader.thrown.files) = absentFiles
     /\ Range(phases) \subseteq {"checks", "cleanup"}

\* the tree holds a node_modules directory, at any depth
shipsModules == \E i \in DOMAIN tree : tree[i].isDir /\ tree[i].name = "node_modules"

\* C11: once checks() has run, the node_modules penalty was deducted exactly
\* once if the tree holds a node_modules directory, and not at all otherwise.
C11_ModulesFlaggedOnce ==
  "checks" \in Range(phases) =>
     grader.modulesFlagged = (IF shipsModules THEN 1 ELSE 0)

\* C11 as amended: the penalty is never deducted more than once, and when
\* checks() scanned the whole listing (no unreadable manifest ended the scan)
\* it was deducted exactly once if the tree holds a node_modules directory and
\* not at all otherwise.
C11_ModulesFlaggedOnceWhenScanned ==
  "checks" \in Range(phases) =>
     /\ grader.modulesFlagged <= 1
     /\ grader.thrown.type # "string" =>
          grader.modulesFlagged = (IF shipsModules THEN 1 ELSE 0)

\* C11 witness: a tree with two node_modules directories at different depths
\* was scanned and flagged once
C11_Witness ==
  /\ "checks" \in Range(phases) /\ tree = TreeModules
  /\ grader.modulesFlagged = 1 /\ grader.hadModules

\* C12: cleanup() never calls kill() on a process that has already exited.
C12_NoKillAfterExit ==
  \A i \in DOMAIN killLog : killLog[i].at # "exited"

\* C13: when the lifecycle of a Grader that started a process completes, the
\* process has exited or been killed; and when the next archive is extracted
\* no process of an earlier submission is still running.
C13_NoProcessOutlivesLifecycle ==
  [][/\ (subprocess /\ pc \in {"cleanup", "catch"}
          /\ pc' \in {"returned", "loop", "afterLoop"}) =>
            proc' \in {"exited", "killed"}
     /\ extracted' > extracted => proc \in {"none", "exited"}]_vars

\* C14: while start() waits, nothing but its resolution happens to run(); it
\* resolves with the process handle and without an error, and it always
\* resolves eventually.
C14_StartResolves ==
  /\ [][pc = "starting" =>
          \/ pc' = "starting"
          \/ pc' = "testCases" /\ subprocess' /\ e' = e /\ raisedIn' = raisedIn]_vars
  /\ (pc = "starting") ~> (pc = "testCases" /\ subprocess)

\* C14 witness: the process exited without announcing itself, the timer
\* resolved start() and the test cases are running
C14_Witness ==
  pc = "testCases" /\ resolvedBy = "timeoutAfterExit" /\ subprocess /\ e = NoError

\* C15: a kill() call of cleanup() that reports failure makes cleanup() throw
\* a FatalGraderError, the error that halts the batch.
C15_FailedKillIsFatal ==
  [][(Len(killLog') > Len(killLog) /\ ~killLog'[Len(killLog')].ok) =>
        /\ e' = FatalError /\ isFatal(e') /\ fatalRaised'
        /\ pc' \in {"catch", "rejected"}]_vars

\* C15 witness: the process was still running, kill() failed, and the fatal
\* error is in the hands of the catch block
C15_Witness ==
  /\ pc = "catch" /\ e = FatalError
  /\ killLog = <<[at |-> "running", ok |-> FALSE]>>

\* C16: whatever the probe does (returns any value, raises any value, also
\* undefined), assertDeepEquals, assertDeepEqualsOptions, assertThrows with
\* correctly paired arguments and the HTTP assertions return normally: the
\* call just made has thrown nothing.
C16_AssertionsNeverRaise ==
  (\/ lastCall.op \in {"assertDeepEquals", "assertDeepEqualsOptions",
                       "assertRequestDeepEquals"}
   \/ lastCall.op = "assertThrows" /\ lastCall.paired)
  => lastCall.threw = "none"

\* C17: assertDeepEqualsOptions deducts nothing if and only if the probe
\* returns a value deep-equal to at least one element of expectedValues; in
\* every other case (no match, empty expectedValues, the probe raises) it
\* deducts exactly points, in one deduction.
C17_OptionsIffMatch ==
  lastCall.op = "assertDeepEqualsOptions" =>
    LET matched == /\ ~lastCall.probe.raises
                   /\ \E i \in DOMAIN lastCall.expected :
                        lastCall.expected[i] = lastCall.probe.value
    IN /\ (lastCall.n = 0) <=> matched
       /\ ~matched => (lastCall.n = 1 /\ lastCall.total = lastCall.points)

\* C18: identifier-stripping equality.  When the object the probe returns
\* carries an _id that is a string of 24 lowercase-hex characters and its
\* remaining fields deep-equal the expected value, nothing is deducted and
\* that _id is returned; when the _id is missing, has another length or holds
\* a character that is not lowercase hex, the full points are deducted, once.
C18_WithoutIdStripsValidId ==
  (/\ lastCall.op = "assertWithoutId"
   /\ ~lastCall.probe.raises
   /\ lastCall.probe.value.type = "object") =>
    LET actual == lastCall.probe.value
        id == actual.id
        wellFormed == /\ id.type = "string"
                      /\ Len(id.chars) = 24
                      /\ \A i \in DOMAIN id.chars : id.chars[i] \in HexLower
        malformed == \/ id.type = "undefined"
                     \/ /\ id.type = "string"
                        /\ \/ Len(id.chars) # 24
                           \/ \E i \in DOMAIN id.chars : id.chars[i] \notin HexLower
    IN /\ (wellFormed /\ Obj(NoIdField, actual.rest) = lastCall.expected[1])
            => (lastCall.n = 0 /\ lastCall.threw = "none" /\ lastCall.ret = id)
       /\ malformed => (lastCall.n = 1 /\ lastCall.total = lastCall.points)

C18_Witness ==
  /\ lastCall.op = "assertWithoutId"
  /\ lastCall.probe = Returned(Obj(StrId(IdGood), 1))
  /\ lastCall.ret = StrId(IdGood)
  /\ lastCall.n = 0
  /\ score = InitialScore

\* the names canvasIdRegex is applied to
RegexNames == {NameLate, NamePlain, NameNoMatch, NameUnderscored, NameText,
               NameLateNoDigits, NameLateNoSeparator, NameNoPrefix, NoName}

\* the digit groups d for which name reads <prefix>[_LATE]_<d>..., the prefix
\* holding no underscore and d being all the digits that follow
NameForm(name) ==
  {SubSeq(name, km[1] + 1, km[2]) :
     km \in {x \in (DOMAIN name) \X (DOMAIN name) :
               LET k == x[1]
                   m == x[2]
               IN /\ name[k] = "_" /\ k < m
                  /\ \A i \in (k + 1)..m : name[i] \in Digits
                  /\ m < Len(name) => name[m + 1] \notin Digits
                  /\ \/ \A i \in 1..(k - 1) : name[i] # "_"
                     \/ /\ k >= 6
                        /\ SubSeq(name, k - 5, k - 1) = <<"_", "L", "A", "T", "E">>
                        /\ \A i \in 1..(k - 6) : name[i] # "_"}}

\* canvasIdRegex yields the digit group of every name that has the form and
\* nothing for the others
canvasIdAgrees ==
  \A name \in RegexNames :
     IF NameForm(name) = {} THEN canvasIdExec(name) = <<>>
     ELSE NameForm(name) = {canvasIdExec(name)}

\* C19: the student identifier taken from an archive name is the digit group
\* of a name of the form <prefix without underscore>[_LATE]_<digits>: the
\* late and the plain name both yield their digits, and a name without this
\* form yields no identifier; every queued identifier is the digit group of
\* its archive's name.
C19_IdIsDigitGroup ==
  /\ canvasIdAgrees
  /\ Len(students) = Len(canvasBuffer)
  /\ \A i \in DOMAIN students :
       LET name == students[i][2]
       IN /\ NameForm(name) = {canvasBuffer[i]}
          /\ name = NameLate => canvasBuffer[i] = <<"1", "2">>
          /\ name = NamePlain => canvasBuffer[i] = <<"3">>
          /\ name # NameNoMatch

C19_Witness ==
  \E i \in DOMAIN students :
     students[i][2] = NameLate /\ canvasBuffer[i] = <<"1", "2">>

\* C20: with a gradebook configured, a submission whose run() returned is
\* queued with addStudent(identifier, grade, comments) if and only if its
\* archive name matches the naming convention; one whose name does not match
\* is not queued and its comments are printed; the queue grows in no other
\* step, so a submission whose grading failed is never queued.
C20_QueuedIffNamed ==
  [][/\ (pc = "returned" /\ ~cfg.onlyCurrent /\ cfg.canvas /\ pc' # pc) =>
          IF NameForm(sub) # {}
          THEN /\ canvasBuffer' = Append(canvasBuffer, CHOOSE d \in NameForm(sub) : TRUE)
               /\ added' = [id |-> CHOOSE d \in NameForm(sub) : TRUE,
                            grade |-> score, comments |-> result.comments]
               /\ result.comments = comments
               /\ idx \notin printed'
          ELSE /\ canvasBuffer' = canvasBuffer
               /\ idx \in printed'
     /\ (canvasBuffer' # canvasBuffer) =>
          (pc = "returned" /\ raisedIn = "none" /\ e = NoError /\ idx \notin recorded)
     /\ (pc = "catch") => canvasBuffer' = canvasBuffer]_vars

C20_Witness ==
  /\ cfg.canvas /\ pc = "loop" /\ idx = 2
  /\ sub = NameNoMatch /\ 2 \in printed
  /\ Len(canvasBuffer) = 1 /\ students[1][2] = NameLate

\* C21: at the moment an archive is extracted the workspace
\* current_submission, resolved against the original working directory
\* whatever directory checks() of the previous submission changed into, has
\* been removed: it holds the files of the archive being extracted and of no
\* earlier submission or run.
C21_WorkspaceReset ==
  [][extracted' > extracted =>
       /\ cwd' = OriginalDir
       /\ workspace' = {idx'}]_vars

\* the second archive is extracted after the first was graded to its end,
\* whose checks() had changed the working directory
C21_Witness ==
  /\ extracted = 2 /\ pc = "checks" /\ 1 \in recorded
  /\ workspace = {2} /\ cwd = OriginalDir

\* the entry of the cleanup() call just made
lastCleanup == cleanupLog[Len(cleanupLog)]

shippedModules ==
  {tree[i].path \o <<"node_modules">> :
     i \in {j \in DOMAIN tree : tree[j].isDir /\ tree[j].name = "node_modules"}}

\* C23: a cleanup() call that completes removes <directory>/node_modules if
\* and only if the submission shipped no node_modules directory, and no
\* cleanup() call removes a node_modules directory that the submission
\* shipped.
C23_OnlyOwnModulesRemoved ==
  \A i \in DOMAIN cleanupLog :
     /\ cleanupLog[i].thrown = "none" =>
           ((cleanupLog[i].removed # NoPath) <=> ~shipsModules)
     /\ cleanupLog[i].removed \notin shippedModules

\* C24: assertThrows called with an expectedMessage but no numeric
\* messagePoints, or with an expectedType but no numeric typePoints, raises a
\* TypeError at once: the probe is not run and score and comments are
\* unchanged.
C24_UnpairedArgumentsRejected ==
  [][(nAsserts' = nAsserts + 1 /\ lastCall'.op = "assertThrows"
      /\ \/ lastCall'.args[1].hasMessage /\ lastCall'.args[1].messagePoints = NoPoints
         \/ lastCall'.args[1].hasType /\ lastCall'.args[1].typePoints = NoPoints) =>
       /\ lastCall'.threw = "TypeError" /\ e'.type = "TypeError"
       /\ ~lastCall'.ran
       /\ grader'.ledger = grader.ledger]_vars

C24_Witness ==
  /\ lastCall.op = "assertThrows" /\ lastCall.threw = "TypeError"
  /\ lastCall.args[1].hasType /\ lastCall.args[1].typePoints = NoPoints
  /\ ~lastCall.args[1].hasMessage
  /\ ~lastCall.ran /\ calls # <<>> /\ lastCall.n = 0

\* C25: whenever the first word of the start command is not 'node' (or there
\* is no start command at all), start() rejects with an error and spawns no
\* subprocess.
C25_OnlyNodeIsSpawned ==
  [][(pc = "start" /\ pc' # pc
      /\ (grader.startScript = NoScript \/ Head(grader.startScript) # "node")) =>
       /\ pc' = throwTarget /\ raisedIn' = "start"
       /\ e'.type \in {"Error", "TypeError"}
       /\ proc' = "none" /\ ~subprocess' /\ subprocessClosed']_vars

\* the default start script 'npm start' was refused
C25_Witness ==
  /\ raisedIn = "start" /\ grader.startScript = NpmStart
  /\ e.msg = "Possibly unsafe start script encountered"
  /\ proc = "none" /\ ~subprocess


\* the loop is done with submission i: it went on to a later file, left the
\* loop, or autoGrade ended
handled(i) == i < idx \/ pc \in {"afterLoop", "done", "rejected"}

\* C26: every submission of a batch that was handled has printed either its
\* score or the 'Could not automatically grade submission.' notice, and the
\* separator line was printed after it, whatever its outcome.
C26_EverySubmissionAccounted ==
  \A i \in 1..MaxFiles :
    (<<i, "grading">> \in outLog /\ handled(i)) =>
      /\ (<<i, "score">> \in outLog \/ <<i, "could not grade">> \in outLog)
      /\ <<i, "separator">> \in outLog


\* C27: when assertThrows finds the raised error not to be of the expected
\* type, the type penalty it deducts is typePoints if typePoints plus the
\* message penalty already deducted is at most points, and points minus the
\* message penalty already deducted otherwise.
C27_TypePenaltyCapped ==
  (/\ lastCall.op = "assertThrows" /\ lastCall.args # <<>>
   /\ lastCall.raised /\ lastCall.threw = "none"
   /\ lastCall.args[1].hasType /\ ~lastCall.args[1].isInstance) =>
    LET a == lastCall.args[1]
        deducted == IF a.hasMessage /\ ~a.messageMatches THEN a.messagePoints ELSE 0
    IN lastCall.total - deducted =
         IF a.typePoints + deducted <= a.points THEN a.typePoints
         ELSE a.points - deducted


\* the scan of checks() reads a manifest that is not JSON: the entry is not
\* below a node_modules directory flagged before it
unparseableManifest(entries) ==
  \E k \in DOMAIN entries :
    /\ entries[k].name = "package.json" /\ ~entries[k].json.valid
    /\ ~(/\ PathHasModules(entries[k].path)
         /\ \E j \in 1..(k - 1) : entries[j].isDir /\ entries[j].name = "node_modules")

\* C28 as stated: a submission whose manifest cannot be parsed is graded to
\* normal completion: checks() does not fail on the manifest.
C28_UnparseableManifestGraded ==
  [][(pc = "checks" /\ pc' # pc /\ unparseableManifest(tree)) =>
       ~(raisedIn' = "checks" /\ e'.msg = "Malformed JSON syntax")]_vars

\* C28, amended: a submission whose manifest cannot be parsed is a failed
\* submission: checks() rejects with the string 'Malformed JSON syntax ...',
\* the later phases do not begin and no grade-and-comments result is produced.
C28_UnparseableManifestFails ==
  (graderSet /\ unparseableManifest(tree) /\ pc # "checks") =>
    /\ raisedIn = "checks" /\ grader.thrown = Err("string", "Malformed JSON syntax")
    /\ ~testsDone /\ result = NoResult /\ idx \notin recorded
    /\ <<idx, "score">> \notin outLog

\* a batch went past a submission with an unparseable manifest
C28_Witness ==
  /\ ~cfg.onlyCurrent /\ pc = "loop" /\ unparseableManifest(tree)
  /\ raisedIn = "checks" /\ e = Err("string", "Malformed JSON syntax")
  /\ <<idx, "could not grade">> \in outLog


\* runStartScript is set, no default start script is configured and the
\* manifest read by checks(), if any, declares none
noStartScriptAnywhere ==
  /\ graderSet /\ cfg.runStartScript /\ cfg.startScript = NoScript
  /\ grader.packageJson.start = NoScript

packagePoints(g) == SumSeq(g.ledger.calls) - ModulesPenalty * g.modulesFlagged

\* C30: with checkPackage set, a checks() that has read the listing deducts
\* 5 points when there is no manifest or the manifest has no scripts.start,
\* and the configured default becomes the start command; for a manifest that
\* declares scripts.start nothing is deducted and the declared command is the
\* start command.
C30_PackageCheck ==
  [][(pc = "checks" /\ pc' # pc /\ cfg.checkPackage
      /\ grader'.thrown.type # "string") =>
       IF ~grader'.packageJson.present \/ grader'.packageJson.start = NoScript
       THEN /\ packagePoints(grader') = PackagePenalty
            /\ grader'.startScript = defaultStartScript(cfg)
       ELSE /\ packagePoints(grader') = 0
            /\ grader'.startScript = grader'.packageJson.start]_vars

\* a manifest without scripts.start was read, 5 points were deducted for it
\* and the configured 'npm start' became the start command
C30_Witness ==
  /\ "checks" \in Range(phases) /\ cfg.checkPackage /\ cfg.startScript = NpmStart
  /\ grader.packageJson.present /\ grader.packageJson.start = NoScript
  /\ grader.thrown.type # "string"
  /\ packagePoints(grader) = PackagePenalty /\ grader.startScript = NpmStart


\* C31: once checks() has scanned the listing, the working directory of the
\* submission is the deepest directory holding a manifest; without a manifest
\* it is the first directory, in scan order, holding a required file; without
\* either it is the workspace root.
C31_WorkingDirectory ==
  ("checks" \in Range(phases) /\ grader.thrown.type # "string") =>
    LET manifests == {k \in DOMAIN tree : tree[k].name = "package.json"}
        required == {k \in DOMAIN tree : tree[k].name \in Range(cfg.requiredFiles)}
        deepest == CHOOSE k \in manifests :
                     \A j \in manifests : Len(tree[j].path) <= Len(tree[k].path)
        first == CHOOSE k \in required : \A j \in required : k <= j
    IN grader.directory = IF manifests # {} THEN tree[deepest].path
                          ELSE IF required # {} THEN tree[first].path
                          ELSE Workspace


\* C32: when the request of an HTTP assertion (assertRequestStatus,
\* assertRequestDeepEquals) fails at the network level, the assertion deducts
\* nothing and raises the Error of request() instead.
C32_NetworkFailureRaises ==
  (/\ lastCall.op \in {"assertRequestStatus", "assertRequestDeepEquals"}
   /\ lastCall.raised) =>
    lastCall.threw = "Error" /\ lastCall.n = 0 /\ lastCall.total = 0

\* after an earlier deduction, an HTTP assertion met a server that was down
C32_Witness ==
  /\ lastCall.op = "assertRequestStatus" /\ lastCall.raised
  /\ lastCall.threw = "Error" /\ calls # <<>> /\ pc = throwTarget


\* C33: for a response that arrived, assertRequestDeepEquals deducts points,
\* in one deduction, if the status is not 200 or if the expected value is not
\* a string and the body is not JSON; otherwise it deducts what the equality
\* assertion deducts for the body (parsed unless a string is expected) and the
\* expected value: nothing when they are deep-equal, points once when not.
C33_RequestDeduction ==
  (lastCall.op = "assertRequestDeepEquals" /\ ~lastCall.raised) =>
    LET res == lastCall.args[1]
        expectedValue == lastCall.expected[1]
        actual == IF expectedValue.type # "string" THEN res.json ELSE Str(res.text)
        full == \/ res.status # 200
                \/ expectedValue.type # "string" /\ ~res.parses
    IN /\ lastCall.threw = "none"
       /\ IF full \/ ~deepStrictEqual(actual, expectedValue)
          THEN lastCall.n = 1 /\ lastCall.total = lastCall.points
          ELSE lastCall.n = 0

\* a 200 response whose body is not JSON, where an object was expected, cost
\* the points once
C33_Witness ==
  /\ lastCall.op = "assertRequestDeepEquals" /\ ~lastCall.raised
  /\ lastCall.args[1].status = 200 /\ ~lastCall.args[1].parses
  /\ lastCall.expected[1].type # "string"
  /\ lastCall.n = 1 /\ lastCall.total = lastCall.points


\* C34: when the error caught by the loop is a configuration error (the
\* testCases() of the base class, or the TypeError of assertThrows for point
\* arguments that do not pair up), the loop goes on to the next archive and
\* what it prints is not the 'Could not automatically grade submission.'
\* notice of a local failure.
C34_ConfigurationErrorsDistinct ==
  [][(/\ pc = "catch" /\ pc' # pc /\ raisedIn = "testCases"
      /\ \/ e.msg = "Please implement testCases()"
         \/ /\ lastCall.op = "assertThrows" /\ ~lastCall.paired
            /\ e.type = "TypeError") =>
       /\ pc' = "loop"
       /\ <<idx, "could not grade">> \notin outLog']_vars


\* C35: in every run of autoGrade the records queued with addStudent are
\* flushed: once autoGrade has ended (resolved or rejected) with a non-empty
\* queue, sendUpdate has been called.
C35_QueuedRecordsFlushed ==
  (pc \in {"done", "rejected"} /\ canvasBuffer # <<>>) => sendCalls > 0


\* C36: cleanup() is executed at most once per Grader instance, also when the
\* cleanup() called by run() raised: the database is not dropped twice, the
\* subprocess not killed twice, node_modules not removed twice.
C36_CleanupAtMostOnce ==
  /\ Len(cleanupLog) <= 1
  /\ \A i, j \in DOMAIN cleanupLog :
       i # j => /\ ~(cleanupLog[i].dropped /\ cleanupLog[j].dropped)
                /\ ~(cleanupLog[i].killed /\ cleanupLog[j].killed)


\* C37: archives are moved to 'uploaded' only by the step after the loop in
\* which sendUpdate resolved, and the archives moved are those of the queued
\* submissions; a submission is queued only when its run() returned a result
\* and its name carries a student id, so the archive of a failed or
\* unidentified submission stays where it is.
C37_MovedOnlyAfterFlush ==
  [][/\ uploaded' # uploaded =>
          /\ pc = "afterLoop" /\ pc' = "done" /\ sendCalls' = sendCalls + 1
          /\ uploaded' = {students[i][2] : i \in DOMAIN students}
     /\ students' # students =>
          /\ pc = "returned" /\ result # NoResult /\ idx \in recorded'
          /\ canvasIdExec(sub) # <<>>
          /\ students' = Append(students, <<grader.author, sub>>)]_vars

\* the archive of the first submission was moved after the flush; the second
\* one, whose name holds no student id, stayed
C37_Witness ==
  /\ pc = "done" /\ sendCalls > 0 /\ idx > Len(students) /\ recorded # {}
  /\ uploaded = {NamePlain} /\ sub = NameNoMatch


\* C38: whenever start() is entered, the start command is not null and is the
\* start command the manifest declares or the configured default, in every
\* configuration, checkPackage = false included.
C38_StartScriptResolved ==
  pc = "start" =>
    /\ grader.startScript # NoScript
    /\ \/ grader.startScript = grader.packageJson.start
       \/ grader.startScript = defaultStartScript(cfg)


\* C39: what assertWithoutId returns is either undefined or an identifier
\* that passed validation, a string of 24 lowercase-hex characters; after a
\* failed validation or a raising probe it is undefined.
C39_ReturnsOnlyValidId ==
  lastCall.op = "assertWithoutId" =>
    \/ lastCall.ret = NoIdField
    \/ /\ ~lastCall.probe.raises
       /\ lastCall.ret.type = "string"
       /\ Len(lastCall.ret.chars) = IdLen
       /\ \A i \in DOMAIN lastCall.ret.chars : lastCall.ret.chars[i] \in HexLower

=============================================================================
